---- MODULE Spec2Model ----
(***************************************************************************)
(* A model of perplexity_api_client.Perplexity: the stored configuration   *)
(* overrides, the chat history, and the calls __init__, set_config,        *)
(* reset_config, ask and chat, with the HTTP session replaced by a         *)
(* nondeterministic remote end.                                            *)
(***************************************************************************)
EXTENDS Integers, Sequences, FiniteSets, TLC

(***************************************************************************)
(* Python values.  Floats are held in tenths (0.2 is n = 2), ints and      *)
(* bools in units scaled to tenths by Num, so that == compares 1, 1.0 and  *)
(* True the way Python does.  A dict or a list carries its items in m and  *)
(* its length in n.                                                        *)
(***************************************************************************)
PyNone == [t |-> "NoneType", n |-> 0, s |-> "", m |-> <<>>]
PyFloat(tenths) == [t |-> "float", n |-> tenths, s |-> "", m |-> <<>>]
PyInt(i) == [t |-> "int", n |-> i, s |-> "", m |-> <<>>]
PyBool(b) == [t |-> "bool", n |-> IF b THEN 1 ELSE 0, s |-> "", m |-> <<>>]
PyStr(str) == [t |-> "str", n |-> 0, s |-> str, m |-> <<>>]
PyList(items) == [t |-> "list", n |-> Len(items), s |-> "", m |-> items]
PyDict(items) == [t |-> "dict", n |-> Cardinality(DOMAIN items), s |-> "", m |-> items]
PyEnum(str) == [t |-> "ResponseFormatType", n |-> 0, s |-> str, m |-> <<>>]

IsNumeric(v) == v.t \in {"int", "float", "bool"}

Num(v) == IF v.t = "float" THEN v.n ELSE 10 * v.n

\* Python's == on the values above
PyEq(a, b) ==
  IF IsNumeric(a) /\ IsNumeric(b) THEN Num(a) = Num(b)
  ELSE a = b

\* Python's truth value of a value
Truthy(v) ==
  CASE v.t = "NoneType" -> FALSE
    [] v.t = "str" -> v.s /= ""
    [] v.t = "ResponseFormatType" -> TRUE
    [] OTHER -> v.n /= 0

\* Python's `a or b`
PyOr(a, b) == IF Truthy(a) THEN a ELSE b

\* isinstance(v, ty) for the builtin type named ty: bool is a subclass of int
IsInstance(v, ty) == v.t = ty \/ (ty = "int" /\ v.t = "bool")

(***************************************************************************)
(* Perplexity.default_config                                               *)
(***************************************************************************)
default_config ==
  [max_tokens |-> PyNone,
   temperature |-> PyFloat(2),
   top_p |-> PyFloat(9),
   search_domain_filter |-> PyList(<<>>),
   return_images |-> PyBool(FALSE),
   return_related_questions |-> PyBool(FALSE),
   search_recency_filter |-> PyStr("month"),
   top_k |-> PyInt(0),
   stream |-> PyBool(FALSE),
   presence_penalty |-> PyInt(0),
   frequency_penalty |-> PyInt(1)]

DefaultKeys == DOMAIN default_config

\* default_config.get(key): None for a missing key
DefaultGet(key) == IF key \in DefaultKeys THEN default_config[key] ELSE PyNone

\* A config argument: a dict (its items in m) or some other object
Dict(items) == [kind |-> "dict", m |-> items]

NotADict == [kind |-> "str", m |-> <<>>]

NoConfig == [kind |-> "NoneType", m |-> <<>>]

\* the keys on which validate_config's loop raises
UnknownKeys(items) == {k \in DOMAIN items : k \notin DefaultKeys}

BadValueKeys(items) ==
  {k \in DOMAIN items \cap DefaultKeys :
     /\ default_config[k] /= PyNone
     /\ ~IsInstance(items[k], default_config[k].t)}

\* validate_config: the exception it raises, "none" when it returns
validate_config(config) ==
  IF config.kind /= "dict" THEN "TypeError"
  ELSE IF UnknownKeys(config.m) \cup BadValueKeys(config.m) /= {}
       THEN "PerplexityConfigError"
       ELSE "none"

\* is_config_valid: its return value, or the exception that escapes it
is_config_valid(config) ==
  LET e == validate_config(config)
  IN  IF e = "none" THEN [exc |-> "none", ret |-> TRUE]
      ELSE IF e = "PerplexityConfigError" THEN [exc |-> "none", ret |-> FALSE]
      ELSE [exc |-> e, ret |-> FALSE]

\* the entries of a valid mapping that differ from their defaults
NonDefault(items) ==
  LET keep == {k \in DOMAIN items : ~PyEq(items[k], DefaultGet(k))}
  IN  [k \in keep |-> items[k]]

\* _get_validated_config returning the mapping as given, defaults included
_get_validated_config_unfiltered(items) == items

\* _get_validated_config, after validation passed
_get_validated_config(items) == NonDefault(items)

\* _validate_and_set_config, after validation passed: the new stored overrides
_validate_and_set_config(stored, items) ==
  LET new == NonDefault(items)
  IN  [k \in DOMAIN stored \cup DOMAIN new |->
         IF k \in DOMAIN new THEN new[k] ELSE stored[k]]

\* the config property: defaults overlaid by the overrides, None dropped
GetConfig(stored) ==
  LET merged == [k \in DefaultKeys \cup DOMAIN stored |->
                   IF k \in DOMAIN stored THEN stored[k] ELSE default_config[k]]
      keep == {k \in DOMAIN merged : merged[k] /= PyNone}
  IN  [k \in keep |-> merged[k]]

\* _validate_required_params testing the model before the api key
_validate_required_params_model_first(self_key, self_model, self_role, api_key, model, system_role) ==
  LET k == PyOr(api_key, self_key)
      mo == PyOr(model, self_model)
      ro == PyOr(system_role, self_role)
  IN  IF ~Truthy(mo) THEN "PerplexityConfigError"
      ELSE IF ~Truthy(k) THEN "PerplexityAuthError"
      ELSE IF ~Truthy(ro) THEN "PerplexityConfigError"
      ELSE "none"

\* _validate_required_params: the exception it raises, "none" when it returns
_validate_required_params(self_key, self_model, self_role, api_key, model, system_role) ==
  LET k == PyOr(api_key, self_key)
      mo == PyOr(model, self_model)
      ro == PyOr(system_role, self_role)
  IN  IF ~Truthy(k) THEN "PerplexityAuthError"
      ELSE IF ~Truthy(mo) THEN "PerplexityConfigError"
      ELSE IF ~Truthy(ro) THEN "PerplexityConfigError"
      ELSE "none"

(***************************************************************************)
(* ResponseFormatType                                                      *)
(***************************************************************************)
ResponseFormatValues == {"raw", "text", "json", "llm_response"}

\* validate_response_type with the isinstance test only, the enum lookup left out
validate_response_type_type_only(response_type) ==
  IF response_type.t \notin {"str", "ResponseFormatType"} THEN "TypeError"
  ELSE "none"

\* validate_response_type: the exception it raises, "none" when it returns
validate_response_type(response_type) ==
  IF response_type.t \notin {"str", "ResponseFormatType"} THEN "TypeError"
  ELSE IF response_type.t = "str" /\ response_type.s \notin ResponseFormatValues
       THEN "ValueError"
       ELSE "none"

(***************************************************************************)
(* The remote end: what requests.Session.request produces for one POST.    *)
(* A response carries a status code and a body text; a transport failure   *)
(* (timeout, connection error) carries no response.                        *)
(***************************************************************************)
HttpResponse(status, text) == [kind |-> "response", status_code |-> status, text |-> text]

TransportFailure(name) == [kind |-> name, status_code |-> 0, text |-> ""]

NoResponse == [kind |-> "none", status_code |-> 0, text |-> ""]

\* requests.Response.ok: raise_for_status raises for 400 <= status < 600
Ok(response) == ~(response.status_code >= 400 /\ response.status_code < 600)

BodyContentX == "{\"choices\":[{\"message\":{\"content\":\"X\"}}]}"
BodyContentEmpty == "{\"choices\":[{\"message\":{\"content\":\"\"}}]}"
BodyContentNull == "{\"choices\":[{\"message\":{\"content\":null}}]}"
BodyNotJson == "Invalid JSON"
BodyNoChoices == "{}"
BodyEmptyChoices == "{\"choices\":[]}"
BodyTopLevelList == "[]"
BodyMessageString == "{\"choices\":[{\"message\":\"s\"}]}"
BodyNoContent == "{\"choices\":[{\"message\":{}}]}"
BodyError == "{\"error\":\"x\"}"

WithContent(content) ==
  PyDict([choices |-> PyList(<<PyDict([message |-> PyDict([content |-> content])])>>)])

\* response.json(): the parsed body, exc = "ValueError" when the text is not JSON
ResponseJson(text) ==
  CASE text = BodyContentX -> [exc |-> "none", val |-> WithContent(PyStr("X"))]
    [] text = BodyContentEmpty -> [exc |-> "none", val |-> WithContent(PyStr(""))]
    [] text = BodyContentNull -> [exc |-> "none", val |-> WithContent(PyNone)]
    [] text = BodyNoChoices -> [exc |-> "none", val |-> PyDict(<<>>)]
    [] text = BodyEmptyChoices -> [exc |-> "none", val |-> PyDict([choices |-> PyList(<<>>)])]
    [] text = BodyTopLevelList -> [exc |-> "none", val |-> PyList(<<>>)]
    [] text = BodyMessageString ->
         [exc |-> "none",
          val |-> PyDict([choices |-> PyList(<<PyDict([message |-> PyStr("s")])>>)])]
    [] text = BodyNoContent ->
         [exc |-> "none",
          val |-> PyDict([choices |-> PyList(<<PyDict([message |-> PyDict(<<>>)])>>)])]
    [] text = BodyError -> [exc |-> "none", val |-> PyDict([error |-> PyStr("x")])]
    [] OTHER -> [exc |-> "ValueError", val |-> PyNone]

\* Python's v[name] for a string subscript
GetItemStr(v, name) ==
  IF v.t = "dict"
  THEN IF name \in DOMAIN v.m THEN [exc |-> "none", val |-> v.m[name]]
       ELSE [exc |-> "KeyError", val |-> PyNone]
  ELSE [exc |-> "TypeError", val |-> PyNone]

\* Python's v[i] for an integer subscript i >= 0
GetItemInt(v, i) ==
  CASE v.t = "list" ->
         IF i < v.n THEN [exc |-> "none", val |-> v.m[i + 1]]
         ELSE [exc |-> "IndexError", val |-> PyNone]
    [] v.t = "dict" -> [exc |-> "KeyError", val |-> PyNone]
    [] v.t = "str" ->
         IF v.s /= "" THEN [exc |-> "none", val |-> PyStr("c")]
         ELSE [exc |-> "IndexError", val |-> PyNone]
    [] OTHER -> [exc |-> "TypeError", val |-> PyNone]

\* json_data["choices"][0]["message"]["content"]
ContentPath(json_data) ==
  LET a == GetItemStr(json_data, "choices")
      b == IF a.exc = "none" THEN GetItemInt(a.val, 0) ELSE a
      c == IF b.exc = "none" THEN GetItemStr(b.val, "message") ELSE b
  IN  IF c.exc = "none" THEN GetItemStr(c.val, "content") ELSE c

\* the Response object as a value
RawView(response) == [t |-> "Response", n |-> response.status_code, s |-> response.text, m |-> <<>>]

\* _format_response: exc is the exception that escapes it, else the four views
_format_response(response) ==
  LET parsed == ResponseJson(response.text)
      path == IF parsed.exc = "none" THEN ContentPath(parsed.val) ELSE parsed
      views(j, l) == [raw |-> RawView(response), text |-> PyStr(response.text),
                      json |-> j, llm_response |-> l]
  IN  IF path.exc = "none" THEN [exc |-> "none", views |-> views(parsed.val, path.val)]
      ELSE IF path.exc \in {"ValueError", "KeyError"}
           THEN [exc |-> "none", views |-> views(PyNone, PyNone)]
           ELSE [exc |-> path.exc, views |-> views(PyNone, PyNone)]

\* formatted_response[response_type]: only the four string keys are present
ViewOf(views, response_type) ==
  IF response_type.t = "str" /\ response_type.s \in DOMAIN views
  THEN [exc |-> "none", val |-> views[response_type.s]]
  ELSE [exc |-> "KeyError", val |-> PyNone]

\* the outcome of a call: a returned value or a raised exception
Returned(value) == [kind |-> "return", exc |-> "none", status_code |-> PyNone, value |-> value]

Raised(exc) == [kind |-> "raise", exc |-> exc, status_code |-> PyNone, value |-> PyNone]

RaisedWithStatus(exc, status) == [kind |-> "raise", exc |-> exc, status_code |-> status, value |-> PyNone]

\* _raise_error_message without its 401 branch
_raise_error_message_no_401(response) ==
  IF response.kind = "response"
  THEN IF response.status_code = 400
       THEN RaisedWithStatus("PerplexityConfigError", PyNone)
       ELSE RaisedWithStatus("PerplexityAPIError", PyInt(response.status_code))
  ELSE RaisedWithStatus("PerplexityAPIError", PyNone)

\* _raise_error_message for the RequestException of a failed request
_raise_error_message(response) ==
  IF response.kind = "response"
  THEN IF response.status_code = 400
       THEN RaisedWithStatus("PerplexityConfigError", PyNone)
       ELSE IF response.status_code = 401
            THEN RaisedWithStatus("PerplexityAuthError", PyNone)
            ELSE RaisedWithStatus("PerplexityAPIError", PyInt(response.status_code))
  ELSE RaisedWithStatus("PerplexityAPIError", PyNone)

(***************************************************************************)
(* Bounds and the inputs the calls are tried with                          *)
(***************************************************************************)
MaxHistory == 4

ApiKeys == {PyNone, PyStr(""), PyStr("test-api-key")}
Models == {PyStr(""), PyStr("test-model")}
SystemRoles == {PyStr(""), PyStr("test-role")}
Messages == {"hi", "yo"}

InputKeys == {"temperature", "top_k", "max_tokens", "invalid_key"}
InputValues == {PyFloat(2), PyFloat(5), PyInt(0), PyInt(3), PyBool(TRUE), PyStr("month"), PyNone}

\* the mappings with exactly one entry, and two that mix a valid and an invalid entry
SingleConfigs == {[k \in {key} |-> v] : key \in InputKeys, v \in InputValues}

MixedConfigs ==
  {[k \in {"temperature", "invalid_key"} |-> PyFloat(5)],
   [k \in {"temperature", "top_k"} |-> IF k = "top_k" THEN PyStr("month") ELSE PyFloat(5)],
   [k \in {"temperature", "top_k"} |-> IF k = "top_k" THEN PyInt(3) ELSE PyFloat(2)]}

Configs == {<<>>} \cup SingleConfigs \cup MixedConfigs

AskConfigs ==
  {<<>>,
   [k \in {"temperature"} |-> PyFloat(5)],
   [k \in {"temperature"} |-> PyFloat(2)],
   [k \in {"invalid_key"} |-> PyFloat(5)],
   [k \in {"top_k"} |-> PyBool(TRUE)]}

ResponseTypes ==
  {PyStr("raw"), PyStr("text"), PyStr("json"), PyStr("llm_response"),
   PyStr("bogus"), PyEnum("llm_response"), PyInt(5)}

SuccessBodies ==
  {BodyContentX, BodyContentEmpty, BodyContentNull, BodyNotJson, BodyNoChoices,
   BodyEmptyChoices, BodyTopLevelList, BodyMessageString, BodyNoContent}

Responses ==
  {HttpResponse(200, b) : b \in SuccessBodies}
  \cup {HttpResponse(st, BodyError) : st \in {400, 401, 429, 500}}
  \cup {HttpResponse(400, BodyNotJson)}
  \cup {TransportFailure("Timeout"), TransportFailure("ConnectionError")}

(***************************************************************************)
(* State                                                                   *)
(***************************************************************************)
VARIABLES
  live,          \* a Perplexity object has been constructed
  auth_token,    \* self.auth_token
  model,         \* self.model
  system_role,   \* self.system_role
  chat_history,  \* self.chat_history
  config,        \* self.__config, the stored overrides
  call,          \* the last call made and its arguments
  request,       \* the payloads the last call posted through the session
  result         \* what the last call returned or raised

vars == <<live, auth_token, model, system_role, chat_history, config, call, request, result>>

identity == <<auth_token, model, system_role>>

Turn(role, content) == [role |-> role, content |-> content]

Payload(mo, messages, options) == [model |-> mo, messages |-> messages, options |-> options]

Call(op) ==
  [op |-> op, api_key |-> PyNone, model |-> PyNone, system_role |-> PyNone,
   config |-> NoConfig, message |-> "", append_history |-> FALSE,
   response_type |-> PyNone, response |-> NoResponse]

Init ==
  /\ live = FALSE
  /\ auth_token = PyNone
  /\ model = PyNone
  /\ system_role = PyNone
  /\ chat_history = <<>>
  /\ config = <<>>
  /\ call = Call("none")
  /\ request = <<>>
  /\ result = Returned(PyNone)

(***************************************************************************)
(* Perplexity.__init__                                                     *)
(***************************************************************************)
Construct ==
  /\ call.op = "none"
  /\ ~live
  /\ \E k \in ApiKeys, mo \in Models, ro \in SystemRoles,
        cfg \in {NoConfig, NotADict} \cup {Dict(c) : c \in Configs} :
       LET e1 == _validate_required_params(k, mo, ro, PyNone, PyNone, PyNone)
           e2 == IF cfg = NoConfig THEN "none" ELSE validate_config(cfg)
       IN  /\ call' = [Call("__init__") EXCEPT !.api_key = k, !.model = mo,
                                                 !.system_role = ro, !.config = cfg]
           /\ request' = <<>>
           /\ IF e1 /= "none" \/ e2 /= "none"
              THEN /\ result' = Raised(IF e1 /= "none" THEN e1 ELSE e2)
                   /\ UNCHANGED <<live, auth_token, model, system_role, chat_history, config>>
              ELSE /\ live' = TRUE
                   /\ auth_token' = k
                   /\ model' = mo
                   /\ system_role' = ro
                   /\ chat_history' = <<Turn("system", ro)>>
                   /\ config' = IF cfg = NoConfig THEN <<>>
                                ELSE _validate_and_set_config(<<>>, cfg.m)
                   /\ result' = Returned(PyNone)

(***************************************************************************)
(* Perplexity.set_config and Perplexity.reset_config                       *)
(***************************************************************************)
SetConfig ==
  /\ call.op = "none"
  /\ live
  /\ \E c \in Configs :
       LET e == validate_config(Dict(c))
       IN  /\ call' = [Call("set_config") EXCEPT !.config = Dict(c)]
           /\ request' = <<>>
           /\ IF e /= "none"
              THEN /\ result' = Raised(e)
                   /\ UNCHANGED config
              ELSE /\ config' = _validate_and_set_config(config, c)
                   /\ result' = Returned(PyNone)
           /\ UNCHANGED <<live, auth_token, model, system_role, chat_history>>

\* reset_config leaving the stored overrides in place
ResetConfigKeepingOverrides ==
  /\ call.op = "none"
  /\ live
  /\ call' = Call("reset_config")
  /\ request' = <<>>
  /\ result' = Returned(PyNone)
  /\ UNCHANGED <<live, auth_token, model, system_role, chat_history, config>>

ResetConfig ==
  /\ call.op = "none"
  /\ live
  /\ call' = Call("reset_config")
  /\ request' = <<>>
  /\ config' = <<>>
  /\ result' = Returned(PyNone)
  /\ UNCHANGED <<live, auth_token, model, system_role, chat_history>>

(***************************************************************************)
(* Perplexity.ask                                                          *)
(***************************************************************************)
AskOverrides == {<<PyNone, PyNone>>, <<PyStr("other-model"), PyStr("")>>}

\* the ask call lines 112-118: the first validation that raises, else "none"
AskValidation(mo, ro, c, rt) ==
  LET e1 == _validate_required_params(auth_token, model, system_role, PyNone, mo, ro)
      e2 == validate_config(Dict(c))
      e3 == validate_response_type(rt)
  IN  IF e1 /= "none" THEN e1 ELSE IF e2 /= "none" THEN e2 ELSE e3

\* ask putting its two turns in front of the history
AskAppendPrepending(history, msg, append, llm) ==
  IF append /\ Truthy(llm)
  THEN <<Turn("user", PyStr(msg)), Turn("assistant", llm)>> \o history
  ELSE history

\* ask appending without looking at append_history
AskAppendIgnoringFlag(history, msg, append, llm) ==
  IF Truthy(llm)
  THEN history \o <<Turn("user", PyStr(msg)), Turn("assistant", llm)>>
  ELSE history

\* the turns ask appends for a formatted success response
AskAppend(history, msg, append, llm) ==
  IF append /\ Truthy(llm)
  THEN history \o <<Turn("user", PyStr(msg)), Turn("assistant", llm)>>
  ELSE history

Ask ==
  /\ call.op = "none"
  /\ live
  /\ Len(chat_history) + 2 <= MaxHistory
  /\ \E msg \in Messages, ov \in AskOverrides, append \in BOOLEAN,
        rt \in ResponseTypes, c \in AskConfigs :
       LET mo == PyOr(ov[1], model)
           ro == PyOr(ov[2], system_role)
           e == AskValidation(mo, ro, c, rt)
           payload == Payload(mo, <<Turn("system", ro), Turn("user", PyStr(msg))>>,
                              _get_validated_config(c))
           thecall == [Call("ask") EXCEPT !.model = ov[1], !.system_role = ov[2],
                                          !.config = Dict(c), !.message = msg,
                                          !.append_history = append, !.response_type = rt]
       IN  IF e /= "none"
           THEN /\ call' = thecall
                /\ request' = <<>>
                /\ result' = Raised(e)
                /\ UNCHANGED chat_history
           ELSE \E response \in Responses :
                  /\ call' = [thecall EXCEPT !.response = response]
                  /\ request' = <<payload>>
                  /\ IF response.kind = "response" /\ Ok(response)
                     THEN LET f == _format_response(response)
                              v == ViewOf(f.views, rt)
                          IN  IF f.exc /= "none"
                              THEN /\ result' = Raised(f.exc)
                                   /\ UNCHANGED chat_history
                              ELSE /\ chat_history' =
                                        AskAppend(chat_history, msg, append, f.views.llm_response)
                                   /\ result' = IF v.exc /= "none" THEN Raised(v.exc)
                                                ELSE Returned(v.val)
                     ELSE /\ result' = _raise_error_message(response)
                          /\ UNCHANGED chat_history
  /\ UNCHANGED <<live, auth_token, model, system_role, config>>

(***************************************************************************)
(* Perplexity.chat                                                         *)
(***************************************************************************)
\* chat validating the response_type only, the identity left unchecked
ChatValidationResponseTypeOnly(rt) == validate_response_type(rt)

\* the chat call lines 171-172: the first validation that raises, else "none"
ChatValidation(rt) ==
  LET e1 == validate_response_type(rt)
      e2 == _validate_required_params(auth_token, model, system_role, PyNone, PyNone, PyNone)
  IN  IF e1 /= "none" THEN e1 ELSE e2

\* chat sending the history as it is, the user turn left out
ChatSentWithoutUserTurn(history, msg) == history

\* the history chat sends: the user turn is appended before the request
ChatSent(history, msg) == Append(history, Turn("user", PyStr(msg)))

\* chat without its test of the content: an assistant turn for every success
ChatAppendAlways(history, llm) == Append(history, Turn("assistant", llm))

\* the assistant turn chat appends for a formatted success response
ChatAppend(history, llm) ==
  IF Truthy(llm) THEN Append(history, Turn("assistant", llm)) ELSE history

Chat ==
  /\ call.op = "none"
  /\ live
  /\ Len(chat_history) + 2 <= MaxHistory
  /\ \E msg \in Messages, rt \in ResponseTypes :
       LET e == ChatValidation(rt)
           sent == ChatSent(chat_history, msg)
           payload == Payload(model, sent, config)
           thecall == [Call("chat") EXCEPT !.message = msg, !.response_type = rt]
       IN  IF e /= "none"
           THEN /\ call' = thecall
                /\ request' = <<>>
                /\ result' = Raised(e)
                /\ UNCHANGED chat_history
           ELSE \E response \in Responses :
                  /\ call' = [thecall EXCEPT !.response = response]
                  /\ request' = <<payload>>
                  /\ IF response.kind = "response" /\ Ok(response)
                     THEN LET f == _format_response(response)
                              v == ViewOf(f.views, rt)
                          IN  IF f.exc /= "none"
                              THEN /\ result' = Raised(f.exc)
                                   /\ chat_history' = sent
                              ELSE /\ chat_history' = ChatAppend(sent, f.views.llm_response)
                                   /\ result' = IF v.exc /= "none" THEN Raised(v.exc)
                                                ELSE Returned(v.val)
                     ELSE /\ result' = _raise_error_message(response)
                          /\ chat_history' = sent
  /\ UNCHANGED <<live, auth_token, model, system_role, config>>

(***************************************************************************)
(* The class methods validate_config and is_config_valid, called without a *)
(* client                                                                  *)
(***************************************************************************)
ValidateConfig ==
  /\ call.op = "none"
  /\ \E cfg \in {NotADict} \cup {Dict(c) : c \in Configs} :
       \/ /\ call' = [Call("validate_config") EXCEPT !.config = cfg]
          /\ result' = IF validate_config(cfg) = "none" THEN Returned(PyNone)
                        ELSE Raised(validate_config(cfg))
       \/ /\ call' = [Call("is_config_valid") EXCEPT !.config = cfg]
          /\ result' = IF is_config_valid(cfg).exc = "none"
                        THEN Returned(PyBool(is_config_valid(cfg).ret))
                        ELSE Raised(is_config_valid(cfg).exc)
  /\ request' = <<>>
  /\ UNCHANGED <<live, auth_token, model, system_role, chat_history, config>>

(***************************************************************************)
(* The public attributes auth_token, model and system_role: a caller can   *)
(* assign them after construction, which is why ask and chat validate them *)
(* again.  The assignment tried here empties one of them.                  *)
(***************************************************************************)
SetAttribute ==
  /\ call.op = "none"
  /\ live
  /\ \/ /\ auth_token' = PyStr("")
        /\ call' = [Call("setattr") EXCEPT !.api_key = PyStr("")]
        /\ UNCHANGED <<model, system_role>>
     \/ /\ model' = PyStr("")
        /\ call' = [Call("setattr") EXCEPT !.model = PyStr("")]
        /\ UNCHANGED <<auth_token, system_role>>
     \/ /\ system_role' = PyStr("")
        /\ call' = [Call("setattr") EXCEPT !.system_role = PyStr("")]
        /\ UNCHANGED <<auth_token, model>>
  /\ request' = <<>>
  /\ result' = Returned(PyNone)
  /\ UNCHANGED <<live, chat_history, config>>

(***************************************************************************)
(* The caller: it makes one call at a time, and once it has used what the  *)
(* call returned or raised it goes on to its next call.                    *)
(***************************************************************************)
Continue ==
  /\ call.op /= "none"
  /\ call' = Call("none")
  /\ request' = <<>>
  /\ result' = Returned(PyNone)
  /\ UNCHANGED <<live, auth_token, model, system_role, chat_history, config>>

Next ==
  Construct \/ SetConfig \/ ResetConfig \/ ValidateConfig \/ Ask \/ Chat
  \/ SetAttribute \/ Continue

Spec == Init /\ [][Next]_vars

TypeOK ==
  /\ live \in BOOLEAN
  /\ Len(chat_history) <= MaxHistory
  /\ Len(request) <= 1

(***************************************************************************)
(* Vocabulary of the properties                                            *)
(***************************************************************************)
\* the last call posted a request
Sent == request /= <<>>

\* the last call got an HTTP success response
GotSuccess(c) == c.response.kind = "response" /\ c.response.status_code < 400

\* the last call's request failed: a failing status or no response at all
RequestFailed(c) ==
  \/ c.response.kind \in {"Timeout", "ConnectionError"}
  \/ c.response.kind = "response" /\ c.response.status_code >= 400

\* the bodies that are not JSON or lack choices[0].message.content
LacksContentPath ==
  {BodyNotJson, BodyNoChoices, BodyEmptyChoices, BodyTopLevelList,
   BodyMessageString, BodyNoContent}

\* the content at choices[0].message.content of the bodies that have one
ContentOf(text) ==
  CASE text = BodyContentX -> PyStr("X")
    [] text = BodyContentEmpty -> PyStr("")
    [] OTHER -> PyNone

\* the last call got a success response with a non-empty assistant content
ProducedContent(c) == GotSuccess(c) /\ ContentOf(c.response.text) \notin {PyStr(""), PyNone}

\* C1: after a successful set_config that sets a key to its own default value,
\* no override for that key is stored and get_config() reports the default for
\* it (an unset default is left out), whatever was stored before.
C1_DefaultValueRemovesOverride ==
  (call.op = "set_config" /\ result.kind = "return") =>
    \A k \in DOMAIN call.config.m \cap DefaultKeys :
      call.config.m[k] = default_config[k] =>
        /\ k \notin DOMAIN config
        /\ IF default_config[k] = PyNone
           THEN k \notin DOMAIN GetConfig(config)
           ELSE GetConfig(config)[k] = default_config[k]

\* C2: on a constructed client the transcript changes only in a chat call or
\* an ask(append_history=true) call, and only when that call produced a
\* non-empty assistant content; every other call leaves it as it was.
C2_TranscriptChangesOnlyWithContent ==
  [][(live /\ chat_history' /= chat_history) =>
       /\ call'.op = "chat" \/ (call'.op = "ask" /\ call'.append_history)
       /\ ProducedContent(call')]_vars

\* C3 as stated: every chat call that gets an HTTP success response makes the
\* transcript two turns longer; with content X it returns X for llm_response
\* and the transcript is the old one, user(msg), assistant(X).
C3_ChatSuccessAlwaysAddsTwo ==
  [][(call'.op = "chat" /\ GotSuccess(call')) =>
       /\ Len(chat_history') = Len(chat_history) + 2
       /\ ProducedContent(call') =>
            /\ chat_history' = chat_history \o
                 <<Turn("user", PyStr(call'.message)),
                   Turn("assistant", ContentOf(call'.response.text))>>
            /\ call'.response_type = PyStr("llm_response") =>
                 result' = Returned(ContentOf(call'.response.text))]_vars

\* C3 amended: a chat call that gets an HTTP success response with a non-empty
\* content X makes the transcript the old one, user(msg), assistant(X), two
\* turns longer, and returns X for llm_response; a success response without
\* such a content makes it exactly one turn longer, the user turn.
C3_ChatSuccessAddsTwoWithContent ==
  [][(call'.op = "chat" /\ GotSuccess(call')) =>
       IF ProducedContent(call')
       THEN /\ chat_history' = chat_history \o
                 <<Turn("user", PyStr(call'.message)),
                   Turn("assistant", ContentOf(call'.response.text))>>
            /\ call'.response_type = PyStr("llm_response") =>
                 result' = Returned(ContentOf(call'.response.text))
       ELSE chat_history' = Append(chat_history, Turn("user", PyStr(call'.message)))]_vars

C3_Witness ==
  /\ call.op = "chat"
  /\ call.response = HttpResponse(200, BodyContentX)
  /\ call.response_type = PyStr("llm_response")
  /\ result = Returned(PyStr("X"))
  /\ Len(chat_history) = 3
  /\ chat_history[3] = Turn("assistant", PyStr("X"))

\* C4: a success response whose body is not JSON or lacks the path
\* choices[0].message.content is no error in ask or chat: the call returns the
\* requested view, and the json and llm_response views are none.
C4_MalformedSuccessIsNoError ==
  (/\ call.op \in {"ask", "chat"}
   /\ GotSuccess(call)
   /\ call.response.text \in LacksContentPath
   /\ call.response_type.t = "str") =>
    /\ result.kind = "return"
    /\ result.value =
         CASE call.response_type.s = "raw" -> RawView(call.response)
           [] call.response_type.s = "text" -> PyStr(call.response.text)
           [] OTHER -> PyNone

\* C5: in ask and chat a failed request is classified by its status code only:
\* 400 raises ConfigError, 401 AuthError, any other failing status APIError
\* carrying that status, and a transport failure APIError with no status.
C5_FailureClassifiedByStatus ==
  (call.op \in {"ask", "chat"} /\ Sent /\ RequestFailed(call)) =>
    /\ result.kind = "raise"
    /\ CASE call.response.kind /= "response" ->
              result.exc = "PerplexityAPIError" /\ result.status_code = PyNone
         [] call.response.kind = "response" /\ call.response.status_code = 400 ->
              result.exc = "PerplexityConfigError"
         [] call.response.kind = "response" /\ call.response.status_code = 401 ->
              result.exc = "PerplexityAuthError"
         [] OTHER ->
              /\ result.exc = "PerplexityAPIError"
              /\ result.status_code = PyInt(call.response.status_code)

C5_Witness ==
  /\ call.op = "ask"
  /\ call.response = HttpResponse(429, BodyError)
  /\ result.exc = "PerplexityAPIError"
  /\ result.status_code = PyInt(429)

\* C6: an ask call changes the transcript if and only if append_history is
\* true and the call got an HTTP success response with a non-empty
\* llm_response, and then it appends user(message), assistant(llm_response) in
\* that order; with append_history false, an empty or none llm_response, or a
\* failed request or validation, the transcript is unchanged.
C6_AskAppendsIffFlagAndContent ==
  [][call'.op = "ask" =>
       IF call'.append_history /\ ProducedContent(call')
       THEN chat_history' = chat_history \o
              <<Turn("user", PyStr(call'.message)),
                Turn("assistant", ContentOf(call'.response.text))>>
       ELSE chat_history' = chat_history]_vars

C6_Witness ==
  /\ call.op = "ask"
  /\ call.append_history
  /\ call.message = "yo"
  /\ call.response = HttpResponse(200, BodyContentX)
  /\ chat_history =
       <<Turn("system", system_role), Turn("user", PyStr("yo")), Turn("assistant", PyStr("X"))>>

\* the response types that validation accepts: the four names, as a string or
\* as an enum member
ValidResponseType(rt) ==
  rt.t \in {"str", "ResponseFormatType"} /\ rt.s \in {"raw", "text", "json", "llm_response"}

\* C7: a chat call that passes local validation posts the old transcript plus
\* user(message), and if the request then fails the error propagates and the
\* transcript is exactly the old one plus that user turn.
C7_ChatKeepsUserTurnOnFailure ==
  [][(/\ call'.op = "chat"
      /\ ValidResponseType(call'.response_type)
      /\ Truthy(auth_token) /\ Truthy(model) /\ Truthy(system_role)) =>
       /\ Len(request') = 1
       /\ request'[1].messages = Append(chat_history, Turn("user", PyStr(call'.message)))
       /\ RequestFailed(call') =>
            /\ result'.kind = "raise"
            /\ chat_history' = Append(chat_history, Turn("user", PyStr(call'.message)))]_vars

C7_Witness ==
  /\ call.op = "chat"
  /\ call.response = TransportFailure("Timeout")
  /\ result.exc = "PerplexityAPIError"
  /\ Len(chat_history) = 2
  /\ chat_history[2] = Turn("user", PyStr(call.message))
  /\ request[1].messages = chat_history

\* C8 as stated: in ask and chat a response_type outside the four names always
\* raises ValueError or TypeError, and the call posts no request.
C8_InvalidResponseTypeRaisesValueOrTypeError ==
  (call.op \in {"ask", "chat"} /\ ~ValidResponseType(call.response_type)) =>
    /\ result.kind = "raise"
    /\ result.exc \in {"ValueError", "TypeError"}
    /\ ~Sent

\* C8 amended: in ask and chat a response_type outside the four names always
\* raises a local validation error and the call posts no request; the error is
\* ValueError or TypeError, except that ask raises the ConfigError of its
\* per-call config when that config is invalid too, because ask validates the
\* identity and the config before the response_type.
C8_InvalidResponseTypeRaisesLocally ==
  (call.op \in {"ask", "chat"} /\ ~ValidResponseType(call.response_type)) =>
    /\ result.kind = "raise"
    /\ ~Sent
    /\ \/ result.exc \in {"ValueError", "TypeError"}
       \/ /\ call.op = "ask"
          /\ UnknownKeys(call.config.m) \cup BadValueKeys(call.config.m) /= {}
          /\ result.exc = "PerplexityConfigError"
       \/ /\ call.op = "ask"
          /\ ~Truthy(auth_token)
          /\ result.exc = "PerplexityAuthError"
       \/ /\ call.op = "ask"
          /\ ~Truthy(PyOr(call.model, model)) \/ ~Truthy(PyOr(call.system_role, system_role))
          /\ result.exc = "PerplexityConfigError"

C8_Witness ==
  /\ call.op = "ask"
  /\ call.response_type = PyStr("bogus")
  /\ call.config = Dict(<<>>)
  /\ result.exc = "ValueError"
  /\ ~Sent

\* C9: construction with an empty api_key raises AuthError, also when model or
\* system_role is empty too; with an api_key and an empty model or system_role
\* it raises ConfigError; with three non-empty values and no or a valid config
\* it succeeds with a transcript holding only the system turn.
C9_ConstructionChecksIdentity ==
  call.op = "__init__" =>
    IF ~Truthy(call.api_key)
    THEN result = Raised("PerplexityAuthError") /\ ~live
    ELSE IF ~Truthy(call.model) \/ ~Truthy(call.system_role)
         THEN result = Raised("PerplexityConfigError") /\ ~live
         ELSE (call.config = NoConfig \/ validate_config(call.config) = "none") =>
                /\ result.kind = "return"
                /\ live
                /\ chat_history = <<Turn("system", call.system_role)>>

C9_Witness ==
  /\ call.op = "__init__"
  /\ call.config = Dict([k \in {"temperature"} |-> PyFloat(5)])
  /\ result.kind = "return"
  /\ live
  /\ chat_history = <<Turn("system", PyStr("test-role"))>>

\* the kinds of value the configuration distinguishes
TypeClass(v) ==
  CASE v.t \in {"int", "float"} -> "numeric"
    [] v.t = "bool" -> "boolean"
    [] v.t = "str" -> "string"
    [] OTHER -> v.t

\* C10: a config mapping passed to validate_config, set_config, the
\* constructor or ask raises ConfigError when one of its keys is absent from
\* the defaults or has a value whose kind (numeric, boolean, string, list)
\* differs from the kind of the key's default, unless that default is none.
C10_BadConfigRaisesConfigError ==
  (/\ call.op \in {"validate_config", "set_config", "ask", "__init__"}
   /\ call.config.kind = "dict"
   /\ call.op = "__init__" =>
        Truthy(call.api_key) /\ Truthy(call.model) /\ Truthy(call.system_role)
   /\ call.op = "ask" =>
        /\ Truthy(auth_token)
        /\ Truthy(PyOr(call.model, model))
        /\ Truthy(PyOr(call.system_role, system_role))) =>
    ((\E k \in DOMAIN call.config.m :
        \/ k \notin DefaultKeys
        \/ /\ default_config[k] /= PyNone
           /\ TypeClass(call.config.m[k]) /= TypeClass(default_config[k]))
      => result = Raised("PerplexityConfigError"))

\* the default mapping without its none-valued entries
DefaultsWithoutNone ==
  [k \in {d \in DefaultKeys : default_config[d] /= PyNone} |-> default_config[k]]

\* C11: after set_config calls, reset_config makes get_config() exactly the
\* default mapping with the none-valued defaults left out, and leaves the
\* identity and the transcript as they were before the reset.
C11_ResetRestoresDefaults ==
  [][call'.op = "reset_config" =>
       /\ GetConfig(config') = DefaultsWithoutNone
       /\ "max_tokens" \notin DOMAIN GetConfig(config')
       /\ identity' = identity
       /\ chat_history' = chat_history]_vars

C11_Witness ==
  /\ call.op = "reset_config"
  /\ GetConfig(config) = DefaultsWithoutNone
  /\ Len(chat_history) = 3
  /\ auth_token = PyStr("test-api-key")

\* C12: the config part of a posted payload is, for ask, exactly the entries
\* of the per-call config that differ from their defaults, whatever is stored,
\* and the stored overrides are left as they were; for chat it is exactly the
\* stored overrides.
C12_PayloadConfig ==
  [][(call'.op \in {"ask", "chat"} /\ Len(request') = 1) =>
       IF call'.op = "ask"
       THEN /\ request'[1].options =
                 [k \in {e \in DOMAIN call'.config.m :
                           call'.config.m[e] /= default_config[e]} |-> call'.config.m[k]]
            /\ config' = config
       ELSE request'[1].options = config]_vars

C12_Witness ==
  /\ call.op = "ask"
  /\ config = [k \in {"top_k"} |-> PyInt(3)]
  /\ call.config = Dict([k \in {"temperature"} |-> PyFloat(5)])
  /\ Len(request) = 1
  /\ request[1].options = [k \in {"temperature"} |-> PyFloat(5)]

\* the arguments and attributes that local validation rejects
InvalidConfigArg(c) ==
  \E k \in DOMAIN c.config.m :
    \/ k \notin DefaultKeys
    \/ default_config[k] /= PyNone /\ ~IsInstance(c.config.m[k], default_config[k].t)

\* C13: a set_config, ask or chat call rejected by local validation (invalid
\* config key or value type, invalid response_type, empty api_key, model or
\* system_role) raises without posting a request and leaves the stored
\* overrides and the transcript exactly as they were: a mixed set_config
\* stores nothing and a rejected chat appends no user turn.
C13_RejectedCallChangesNothing ==
  [][(\/ call'.op \in {"set_config", "ask"} /\ InvalidConfigArg(call')
      \/ call'.op \in {"ask", "chat"} /\ ~ValidResponseType(call'.response_type)
      \/ call'.op = "chat" /\ (~Truthy(auth_token) \/ ~Truthy(model) \/ ~Truthy(system_role))
      \/ /\ call'.op = "ask"
         /\ \/ ~Truthy(auth_token)
            \/ ~Truthy(PyOr(call'.model, model))
            \/ ~Truthy(PyOr(call'.system_role, system_role))) =>
       /\ result'.kind = "raise"
       /\ result'.exc \in {"PerplexityConfigError", "PerplexityAuthError", "ValueError", "TypeError"}
       /\ request' = <<>>
       /\ config' = config
       /\ chat_history' = chat_history]_vars

C13_Witness ==
  /\ call.op = "chat"
  /\ model = PyStr("")
  /\ ValidResponseType(call.response_type)
  /\ result = Raised("PerplexityConfigError")
  /\ request = <<>>
  /\ Len(chat_history) = 1

\* C14: is_config_valid returns a boolean for every input and never raises:
\* true exactly when validate_config accepts the input, false for every input
\* it rejects, an input that is not a mapping included.
C14_IsConfigValidNeverRaises ==
  call.op = "is_config_valid" =>
    /\ result.kind = "return"
    /\ result.value = PyBool(validate_config(call.config) = "none")

\* the view of a response that a response type names
NamedView(response, name) ==
  CASE name = "raw" -> RawView(response)
    [] name = "text" -> PyStr(response.text)
    [] name = "json" -> ResponseJson(response.text).val
    [] OTHER -> ContentOf(response.text)

\* C15: for every response_type that validation accepts, a string or an enum
\* member, an ask or chat call that gets an HTTP success response (here one
\* whose body has the content path) returns the view it names and raises
\* nothing.
C15_AcceptedResponseTypeReturnsView ==
  (/\ call.op \in {"ask", "chat"}
   /\ GotSuccess(call)
   /\ call.response.text \notin LacksContentPath
   /\ ValidResponseType(call.response_type)) =>
    result = Returned(NamedView(call.response, call.response_type.s))

\* C16: on a constructed client the transcript is append-only: the transcript
\* before a step is a prefix of the transcript after it, and its first turn
\* stays the system turn made at construction.
C16_TranscriptAppendOnly ==
  [][live =>
       /\ Len(chat_history) <= Len(chat_history')
       /\ SubSeq(chat_history', 1, Len(chat_history)) = chat_history
       /\ chat_history'[1].role = "system"]_vars

C16_Witness ==
  /\ call.op = "ask"
  /\ call.append_history
  /\ Len(chat_history) = 4
  /\ chat_history[1].role = "system"
  /\ chat_history[2].role = "user"
  /\ chat_history[3].role = "user"
  /\ chat_history[4].role = "assistant"

====
